---- MODULE Spec2Model ----
(***************************************************************************)
(* A model of UIElements::Playlist::Playlist (Playlist.cpp): the playlist  *)
(* of songs and subsongs, the active item, tagging and the next/previous   *)
(* traversals.                                                             *)
(*                                                                         *)
(* A node is named by its place in the tree: <<i, 0>> is the i-th song of  *)
(* _model.entries, <<i, j>> the j-th child of that song.  The C++ code     *)
(* names a node by its address; an address that outlives the erasure of a  *)
(* song before it is the same node one place further to the front, which   *)
(* Rebase computes.                                                        *)
(***************************************************************************)
EXTENDS Integers, Sequences, FiniteSets, TLC

\* Bounds of the model.
MaxSongs == 2
MaxNodes == 3
MaxBatch == 2
NavSongs == 3
NavNodes == 4
PlayableSongs == 2
PlayableNodes == 2

VARIABLES
    entries,        \* _model.entries: the root songs, each with its children
    activeItem,     \* _activeItem
    authorHidden,   \* GetColumn(ColumnId::Author)->IsHidden()
    preferDefault,  \* the option RepeatModeDefaultSubsong of _appSettings
    view,           \* the items the wx base control has been told of
    ret             \* the last call: operation, argument, result, notification

vars == <<entries, activeItem, authorHidden, preferDefault, view, ret>>

\* wxDataViewItem(nullptr), and a pointer to a node that has been destroyed.
NULL == <<0, 0>>
DANGLING == <<-1, -1>>
\* The result of a call that ends in a null dereference or never returns.
CRASH == <<-2, -2>>

ItemTags == {"Normal", "ShortDuration", "Blacklisted"}

DefaultAttr == [bold |-> FALSE, colour |-> "Default", strike |-> FALSE]

\* PlaylistTreeModelNode's constructor: a new node is Normal, has no icon and
\* default attributes.
NewNode(type, filepath, defaultSubsong, author, romRequirement, playable) ==
    [type |-> type, filepath |-> filepath, defaultSubsong |-> defaultSubsong,
     author |-> author, romRequirement |-> romRequirement, playable |-> playable,
     tag |-> "Normal", iconId |-> "NoIcon", attr |-> DefaultAttr,
     children |-> <<>>]

IsPlayable(n) == n.playable /\ n.tag # "Blacklisted"

IsAutoPlayable(n) == IsPlayable(n) /\ n.tag # "ShortDuration"

GetSubsongCount(n) == Len(n.children)

ResetItemAttr(n) == [n EXCEPT !.attr = DefaultAttr]

---------------------------------------------------------------------------
\* Nodes by reference.

IsSongRef(r) == r[1] \in 1..Len(entries) /\ r[2] = 0

IsSubsongRef(r) ==
    /\ r[1] \in 1..Len(entries)
    /\ r[2] \in 1..Len(entries[r[1]].children)

IsLive(r) == IsSongRef(r) \/ IsSubsongRef(r)

SongRefs == {<<i, 0>> : i \in 1..Len(entries)}

SubsongRefsOf(es, i) == {<<i, j>> : j \in 1..Len(es[i].children)}

SubsongRefs == UNION {SubsongRefsOf(entries, i) : i \in 1..Len(entries)}

LiveRefs == SongRefs \cup SubsongRefs

NodeIn(es, r) == IF r[2] = 0 THEN es[r[1]] ELSE es[r[1]].children[r[2]]

NodeAt(r) == NodeIn(entries, r)

SetNode(es, r, n) ==
    IF r[2] = 0 THEN [es EXCEPT ![r[1]] = n]
    ELSE [es EXCEPT ![r[1]].children[r[2]] = n]

\* PlaylistTreeModelNode::GetParent: nullptr for a song.
GetParent(r) == IF r[2] = 0 THEN NULL ELSE <<r[1], 0>>

\* Where the node r is once the i-th song has been erased from the root.
Rebase(r, i) ==
    IF r[1] = i THEN DANGLING
    ELSE IF r[1] > i THEN <<r[1] - 1, r[2]>>
    ELSE r

\* std::vector::erase of the i-th element.
Erase(s, i) == SubSeq(s, 1, i - 1) \o SubSeq(s, i + 1, Len(s))

\* A playlist that puts a new song in front of the others.
EmplaceFront(s, n) == <<n>> \o s

\* std::vector::emplace_back.
EmplaceBack(s, n) == Append(s, n)

\* The first root song with this file path (std::find_if), 0 when none has it.
FindByPath(es, filepath) ==
    LET hits == {i \in 1..Len(es) : es[i].filepath = filepath}
    IN  IF hits = {} THEN 0 ELSE CHOOSE i \in hits : \A k \in hits : i <= k

\* The record of a call: the operation, its node argument and its boolean
\* argument, the node and the boolean it gives back, the number of calls it
\* made of itself (of subsongs it was given, for AddSubsongs), the notification
\* it sent, and the active item it began with.
Result(op, arg, flag, val, ok, calls, note) ==
    [op |-> op, arg |-> arg, flag |-> flag, val |-> val, ok |-> ok, calls |-> calls,
     note |-> note, was |-> activeItem]

---------------------------------------------------------------------------
\* A refresh that compares the first two songs only.
CompareFirstTwo(es) ==
    IF Len(es) > 1 THEN es[2].author = es[1].author ELSE TRUE

\* Playlist::RefreshAuthorColumnVisibility: the value of shouldHide, which the
\* column's hidden state is set to.
RefreshAuthorColumnVisibility(es) ==
    IF Len(es) > 1
    THEN \A i \in 1..Len(es) : es[i].author = es[1].author
    ELSE TRUE

\* Playlist::GetActiveSong.
GetActiveSong == IF activeItem # NULL THEN activeItem ELSE NULL

\* Playlist::AddMainSong.
AddMainSong(filepath, defaultSubsong, author, romRequirement, playable) ==
    LET es == EmplaceBack(entries,
                  NewNode("Song", filepath, defaultSubsong, author, romRequirement, playable))
    IN  /\ entries' = es
        /\ view' = view \cup {<<Len(es), 0>>}
        /\ authorHidden' = RefreshAuthorColumnVisibility(es)
        /\ ret' = Result("AddMainSong", NULL, playable, <<Len(es), 0>>, TRUE, 0, "ItemAdded")
        /\ UNCHANGED <<activeItem, preferDefault>>

\* The children Playlist::AddSubsongs creates for `parent`, in order: cnt runs
\* from 1 in every call.
NewSubsongs(parent, n) ==
    [cnt \in 1..n |->
        [NewNode("Subsong", parent.filepath, cnt, "", parent.romRequirement,
                 IsPlayable(parent))
            EXCEPT !.iconId = IF parent.defaultSubsong = cnt
                              THEN "DefaultSubsongIndicator" ELSE "NoIcon"]]

\* Playlist::AddSubsongs, with n = durations.size().
AddSubsongs(n, parent) ==
    /\ IsSongRef(parent)
    /\ IF n = 0
       THEN /\ ret' = Result("AddSubsongs", parent, FALSE, NULL, TRUE, 0, "None")
            /\ UNCHANGED <<entries, view>>
       ELSE LET old == NodeAt(parent)
                kids == old.children \o NewSubsongs(old, n)
            IN  /\ entries' = [entries EXCEPT ![parent[1]].children = kids]
                /\ view' = view \cup {<<parent[1], j>> : j \in (Len(old.children) + 1)..Len(kids)}
                /\ ret' = Result("AddSubsongs", parent, FALSE, NULL, TRUE, n, "ItemsAdded")
    /\ UNCHANGED <<activeItem, authorHidden, preferDefault>>

\* A Remove that leaves _activeItem alone.
RemoveNeverUnsets(item) == {FALSE}

\* A Remove that compares the nodes, not their file paths.
RemoveUnsetsSameNode(item) == {GetActiveSong = item}

\* Whether Playlist::Remove unsets _activeItem: the comparison of the active
\* node's file path with the item's.  Reading a destroyed node has no defined
\* result.
RemoveUnsets(item) ==
    IF GetActiveSong = NULL THEN {FALSE}
    ELSE IF GetActiveSong = DANGLING THEN BOOLEAN
    ELSE {NodeAt(GetActiveSong).filepath = NodeAt(item).filepath}

\* Whether std::find_if over _model.entries finds the item: the root holds
\* the songs only.
FoundInRoot(item) == item[2] = 0

\* wxDataViewModel::ItemDeleted as the control sees it: the item and what is
\* below it leave the control; `erased` says whether the root lost a song.
ItemDeleted(items, item, erased) ==
    LET gone == IF item[2] = 0 THEN {r \in items : r[1] = item[1]} ELSE {item}
        left == items \ gone
    IN  IF erased THEN {Rebase(r, item[1]) : r \in left} ELSE left

\* Playlist::Remove.
Remove(item) ==
    /\ IsLive(item)
    /\ \E unset \in RemoveUnsets(item) :
        LET active == IF unset THEN NULL ELSE activeItem
            found == FoundInRoot(item)
            es == IF found THEN Erase(entries, item[1]) ELSE entries
        IN  /\ entries' = es
            /\ activeItem' = IF found THEN Rebase(active, item[1]) ELSE active
            /\ view' = ItemDeleted(view, item, found)
            /\ authorHidden' = RefreshAuthorColumnVisibility(es)
            /\ ret' = Result("Remove", item, FALSE, NULL, found, 0, "ItemDeleted")
    /\ UNCHANGED preferDefault

\* Playlist::Clear.
Clear ==
    /\ activeItem' = NULL
    /\ entries' = <<>>
    /\ view' = {}
    /\ authorHidden' = RefreshAuthorColumnVisibility(<<>>)
    /\ ret' = Result("Clear", NULL, FALSE, NULL, TRUE, 0, "Cleared")
    /\ UNCHANGED preferDefault

\* The old-node part of Playlist::TrySetActiveSong: the attributes of the
\* outgoing active node and of its parent are reset.
UnhighlightOld(es) ==
    IF ~IsLive(activeItem) THEN es
    ELSE LET es1 == SetNode(es, activeItem, ResetItemAttr(NodeIn(es, activeItem)))
             parent == GetParent(activeItem)
         IN  IF parent # NULL
             THEN SetNode(es1, parent, ResetItemAttr(NodeIn(es1, parent)))
             ELSE es1

\* The new-node part of Playlist::TrySetActiveSong: the node is set bold, and
\* the parent of a subsong bold and coloured.
HighlightNew(es, node) ==
    LET n == NodeIn(es, node)
        es1 == SetNode(es, node, [n EXCEPT !.attr.bold = TRUE])
    IN  IF n.type = "Subsong"
        THEN LET parent == GetParent(node)
                 pn == NodeIn(es1, parent)
             IN  SetNode(es1, parent,
                         [pn EXCEPT !.attr.bold = TRUE, !.attr.colour = "Hotlight"])
        ELSE es1

\* A guard that reads the playable flag and not the tag.
RefusesUnflagged(n) == ~n.playable

\* A guard that reads the tag and not the playable flag.
RefusesBlacklisted(n) == n.tag = "Blacklisted"

\* A TrySetActiveSong without its guard.
RefusesNothing(n) == FALSE

\* The guard of Playlist::TrySetActiveSong: whether the call is refused.
Refuses(n) == ~IsPlayable(n)

\* The hints Playlist::TrySetActiveSong forwards to the control (Collapse of
\* the old parent, Expand of the new one); the control's rows are not modelled.
ExpandHints(node, autoexpand) ==
    LET collapse == autoexpand /\ IsLive(activeItem) /\ NodeAt(activeItem).type = "Subsong"
        expand == autoexpand /\ NodeAt(node).type = "Subsong"
    IN  IF collapse /\ expand THEN "CollapseExpand"
        ELSE IF collapse THEN "Collapse"
        ELSE IF expand THEN "Expand"
        ELSE "None"

\* Playlist::TrySetActiveSong.  With a destroyed node as the old active item
\* the call reads freed memory: it may crash, or go on as if nothing was there.
TrySetActiveSong(node, autoexpand) ==
    /\ IsLive(node)
    /\ IF Refuses(NodeAt(node))
       THEN /\ ret' = Result("TrySetActiveSong", node, autoexpand, NULL, FALSE, 0, "None")
            /\ UNCHANGED <<entries, activeItem>>
       ELSE \/ /\ activeItem = DANGLING
               /\ ret' = Result("TrySetActiveSong", node, autoexpand, CRASH, FALSE, 0, "None")
               /\ UNCHANGED <<entries, activeItem>>
            \/ /\ entries' = HighlightNew(UnhighlightOld(entries), node)
               /\ activeItem' = node
               /\ ret' = Result("TrySetActiveSong", node, autoexpand, NULL, TRUE, 0,
                                ExpandHints(node, autoexpand))
    /\ UNCHANGED <<authorHidden, preferDefault, view>>

\* The icon and styling part of Playlist::SetItemTag (the switch), applied to
\* the node n at `node` whose tag is already set.
ApplyTagStyle(es, node, n, tag) ==
    IF tag = "ShortDuration" THEN [n EXCEPT !.iconId = "SkipShort"]
    ELSE IF tag = "Blacklisted" THEN [n EXCEPT !.iconId = "RemoveSong"]
    ELSE LET itemIsDefaultSubsong ==
                 /\ n.type = "Subsong"
                 /\ n.defaultSubsong = NodeIn(es, GetParent(node)).defaultSubsong
             n1 == [n EXCEPT !.iconId = IF itemIsDefaultSubsong
                                         THEN "DefaultSubsongIndicator" ELSE "NoIcon"]
         IN  IF n1.romRequirement = "None" THEN n1
             ELSE LET n2 == IF n1.type = "Song" THEN [n1 EXCEPT !.iconId = "ChipIcon"] ELSE n1
                      col == IF n2.romRequirement = "BasicRom" THEN "#054a80" ELSE "#8a5454"
                  IN  IF IsPlayable(n2) THEN n2
                      ELSE [n2 EXCEPT
                               !.attr.colour = col, !.attr.strike = TRUE,
                               !.children = [j \in 1..Len(n2.children) |->
                                   [n2.children[j] EXCEPT !.attr.colour = col,
                                                          !.attr.strike = TRUE]]]

\* A SetItemTag whose guard reads the playable flag and not the tag.
TagRefusedUnflagged(n, force) == ~force /\ ~n.playable

\* The guard of Playlist::SetItemTag: whether the call returns at once.
TagRefused(n, force) == ~force /\ ~IsPlayable(n)

\* Playlist::SetItemTag.
SetItemTag(node, tag, force) ==
    /\ IsLive(node)
    /\ IF TagRefused(NodeAt(node), force)
       THEN /\ ret' = Result("SetItemTag", node, force, NULL, FALSE, 0, "None")
            /\ UNCHANGED entries
       ELSE LET n1 == [NodeAt(node) EXCEPT !.tag = tag]
                n2 == IF force THEN ResetItemAttr(n1) ELSE n1
            IN  /\ entries' = SetNode(entries, node, ApplyTagStyle(entries, node, n2, tag))
                /\ ret' = Result("SetItemTag", node, force, NULL, TRUE, 0, "ItemChanged")
    /\ UNCHANGED <<activeItem, authorHidden, preferDefault, view>>

---------------------------------------------------------------------------
\* Lookups and traversals.  They change nothing but the recorded result.

\* PlaylistTreeModelNode::GetSubsong: the child in place `subsong` of the
\* node n, 0 for the null that an index out of range gives.
NodeGetSubsong(n, subsong) ==
    IF subsong \in 1..Len(n.children) THEN subsong ELSE 0

\* A scan that takes the first child, auto-playable or not.
FirstChild(n) == IF Len(n.children) = 0 THEN 0 ELSE 1

\* The first auto-playable child of n (std::find_if over GetChildren), 0 when
\* there is none.
FirstAutoPlayable(n) ==
    LET hits == {j \in 1..Len(n.children) : IsAutoPlayable(n.children[j])}
    IN  IF hits = {} THEN 0 ELSE CHOOSE j \in hits : \A k \in hits : j <= k

\* Playlist::GetEffectiveInitialSubsong of the s-th song.
GetEffectiveInitialSubsong(s) ==
    LET node == entries[s]
        preferredStartSubsong == IF preferDefault THEN node.defaultSubsong ELSE 1
        preferredStartSubsongItem == NodeGetSubsong(node, preferredStartSubsong)
        itSubsong == FirstAutoPlayable(node)
    IN  IF GetSubsongCount(node) = 0
        THEN IF IsAutoPlayable(node) THEN <<s, 0>> ELSE NULL
        ELSE IF /\ preferredStartSubsongItem # 0
                /\ IsAutoPlayable(node.children[preferredStartSubsongItem])
        THEN <<s, preferredStartSubsongItem>>
        ELSE IF itSubsong = 0 THEN NULL
        ELSE <<s, itSubsong>>

\* Playlist::GetSong.
GetSong(filepath) ==
    LET itTargetSong == FindByPath(entries, filepath)
    IN  IF itTargetSong = 0 THEN NULL ELSE <<itTargetSong, 0>>

\* Playlist::GetSubsong.
GetSubsong(filepath, subsong) ==
    LET mainSongNode == GetSong(filepath)
    IN  IF mainSongNode = NULL THEN NULL
        ELSE IF subsong = 0 THEN GetEffectiveInitialSubsong(mainSongNode[1])
        ELSE IF NodeGetSubsong(NodeAt(mainSongNode), subsong) = 0 THEN NULL
        ELSE <<mainSongNode[1], subsong>>

Found(val, calls) == [val |-> val, calls |-> calls]

Deeper(r) == Found(r.val, r.calls + 1)

\* Playlist::GetNextSong(fromSong).  `fuel` is the number of calls still on
\* hand: a recursion that has passed through more calls than there are songs
\* has been at one place twice and never returns, which ends in CRASH.
RECURSIVE GetNextSongFrom(_, _)
GetNextSongFrom(filepath, fuel) ==
    LET itCurrent == FindByPath(entries, filepath)
        itNext == itCurrent + 1
    IN  IF fuel = 0 THEN Found(CRASH, 0)
        ELSE IF itCurrent = 0 THEN Found(NULL, 0)
        ELSE IF itNext > Len(entries) THEN Found(NULL, 0)
        ELSE IF IsAutoPlayable(entries[itNext])
        THEN Found(GetEffectiveInitialSubsong(itNext), 0)
        ELSE Deeper(GetNextSongFrom(entries[itNext].filepath, fuel - 1))

\* Playlist::GetPrevSong(fromSong).
RECURSIVE GetPrevSongFrom(_, _)
GetPrevSongFrom(filepath, fuel) ==
    LET itCurrent == FindByPath(entries, filepath)
        itPrev == itCurrent - 1
    IN  IF fuel = 0 THEN Found(CRASH, 0)
        ELSE IF itCurrent = 0 \/ itCurrent = 1 THEN Found(NULL, 0)
        ELSE IF IsAutoPlayable(entries[itPrev])
        THEN Found(GetEffectiveInitialSubsong(itPrev), 0)
        ELSE Deeper(GetPrevSongFrom(entries[itPrev].filepath, fuel - 1))

\* Playlist::GetNextSubsong(fromSubsong), of a node with this file path and
\* subsong index.
RECURSIVE GetNextSubsongFrom(_, _, _)
GetNextSubsongFrom(filepath, defaultSubsong, fuel) ==
    LET mainSong == GetSong(filepath)
        max == GetSubsongCount(NodeAt(mainSong))
        nextSubsong == GetSubsong(filepath, defaultSubsong + 1)
    IN  IF fuel = 0 THEN Found(CRASH, 0)
        ELSE IF mainSong = NULL THEN Found(NULL, 0)
        ELSE IF defaultSubsong >= max THEN Found(NULL, 0)
        ELSE IF IsAutoPlayable(NodeAt(nextSubsong)) THEN Found(nextSubsong, 0)
        ELSE Deeper(GetNextSubsongFrom(filepath, NodeAt(nextSubsong).defaultSubsong,
                                       fuel - 1))

\* What a call that dereferences a null pointer may end as.
NullDeref == <<-3, -3>>

\* Playlist::GetPrevSubsong(fromSubsong).  The node GetSubsong returns is
\* used unchecked.
RECURSIVE GetPrevSubsongFrom(_, _, _)
GetPrevSubsongFrom(filepath, defaultSubsong, fuel) ==
    LET prevSubsong == GetSubsong(filepath, defaultSubsong - 1)
    IN  IF fuel = 0 THEN Found(CRASH, 0)
        ELSE IF defaultSubsong <= 1 THEN Found(NULL, 0)
        ELSE IF prevSubsong = NULL THEN Found(NullDeref, 0)
        ELSE IF IsAutoPlayable(NodeAt(prevSubsong)) THEN Found(prevSubsong, 0)
        ELSE Deeper(GetPrevSubsongFrom(filepath, NodeAt(prevSubsong).defaultSubsong,
                                       fuel - 1))

\* The results a build can give for a traversal that ran into r.
Outcomes(r) == IF r.val = NullDeref THEN {CRASH, NULL} ELSE {r.val}

Query(op, from, r) ==
    /\ \E v \in Outcomes(r) : ret' = Result(op, from, FALSE, v, v # CRASH, r.calls, "None")
    /\ UNCHANGED <<entries, activeItem, authorHidden, preferDefault, view>>

GetNextSong(fromSong) ==
    /\ IsLive(fromSong)
    /\ Query("GetNextSong", fromSong,
             GetNextSongFrom(NodeAt(fromSong).filepath, Len(entries) + 1))

GetPrevSong(fromSong) ==
    /\ IsLive(fromSong)
    /\ Query("GetPrevSong", fromSong,
             GetPrevSongFrom(NodeAt(fromSong).filepath, Len(entries) + 1))

GetNextSubsong(fromSubsong) ==
    /\ IsSubsongRef(fromSubsong)
    /\ Query("GetNextSubsong", fromSubsong,
             GetNextSubsongFrom(NodeAt(fromSubsong).filepath,
                                NodeAt(fromSubsong).defaultSubsong, Cardinality(LiveRefs) + 1))

GetPrevSubsong(fromSubsong) ==
    /\ IsSubsongRef(fromSubsong)
    /\ Query("GetPrevSubsong", fromSubsong,
             GetPrevSubsongFrom(NodeAt(fromSubsong).filepath,
                                NodeAt(fromSubsong).defaultSubsong, Cardinality(LiveRefs) + 1))

\* A call of GetEffectiveInitialSubsong on a song of the playlist.
ResolveInitialSubsong(song) ==
    /\ IsSongRef(song)
    /\ Query("GetEffectiveInitialSubsong", song,
             Found(GetEffectiveInitialSubsong(song[1]), 0))

\* The traversals, from every node they can be asked about.
Queries ==
    \/ \E r \in LiveRefs : GetNextSong(r)
    \/ \E r \in LiveRefs : GetPrevSong(r)
    \/ \E r \in SubsongRefs : GetNextSubsong(r)
    \/ \E r \in SubsongRefs : GetPrevSubsong(r)

\* The state after construction; the option is the application's.
InitOver(options) ==
    /\ entries = <<>>
    /\ activeItem = NULL
    /\ authorHidden = TRUE
    /\ preferDefault \in options
    /\ view = {}
    /\ ret = [Result("Playlist", NULL, FALSE, NULL, TRUE, 0, "None") EXCEPT !.was = NULL]

\* The calls that build and change the playlist, with their arguments drawn
\* from the sets of c and the playlist kept within c's bounds.
Builders(c) ==
    \/ /\ Len(entries) < c.maxSongs
       /\ Cardinality(LiveRefs) < c.maxNodes
       /\ \E p \in c.paths, d \in c.defaults, a \in c.authors, q \in c.roms, b \in c.flags :
              AddMainSong(p, d, a, q, b)
    \/ \E n \in 0..MaxBatch, r \in SongRefs :
           /\ Cardinality(LiveRefs) + n <= c.maxNodes
           /\ AddSubsongs(n, r)
    \/ \E r \in LiveRefs :
           /\ NodeAt(r).type \in c.removes
           /\ Remove(r)
    \/ Clear
    \/ \E r \in LiveRefs, t \in c.tags, f \in c.forces : SetItemTag(r, t, f)

\* The calls that make a node the active one.
Activation(c) ==
    \E r \in LiveRefs, x \in c.expands : TrySetActiveSong(r, x)

NodeTypes == {"Song", "Subsong"}

\* A playlist whose songs differ in file path; every node is playable.
StoreInputs ==
    [maxSongs |-> MaxSongs, maxNodes |-> MaxNodes, removes |-> NodeTypes,
     paths |-> {"p", "q"}, defaults |-> {1}, authors |-> {"a"}, roms |-> {"None"},
     flags |-> {TRUE}, expands |-> BOOLEAN, tags |-> {"Normal"}, forces |-> {TRUE}]

\* A playlist whose songs differ in the playable flag and are tagged at will.
PlayableInputs ==
    [maxSongs |-> PlayableSongs, maxNodes |-> PlayableNodes, removes |-> NodeTypes,
     paths |-> {"p"}, defaults |-> {1}, authors |-> {"a"}, roms |-> {"None"},
     flags |-> BOOLEAN, expands |-> BOOLEAN, tags |-> ItemTags, forces |-> BOOLEAN]

Init == InitOver({FALSE})

Next == Builders(StoreInputs) \/ Activation(StoreInputs)

Spec == Init /\ [][Next]_vars

\* A playlist to traverse: songs share file paths and are tagged at will.
NavInputs ==
    [maxSongs |-> NavSongs, maxNodes |-> NavNodes, removes |-> {"Song"},
     paths |-> {"p", "q", "r"}, defaults |-> {1}, authors |-> {"a"}, roms |-> {"None"},
     flags |-> {TRUE}, tags |-> {"Normal", "ShortDuration"}, forces |-> {TRUE}]

NextNav == Builders(NavInputs) \/ Queries

SpecNav == Init /\ [][NextNav]_vars

\* One song and its subsongs, to resolve the initial subsong of.
InitialInputs ==
    [maxSongs |-> 1, maxNodes |-> NavNodes, removes |-> {"Song"},
     paths |-> {"p"}, defaults |-> 1..(MaxBatch + 1), authors |-> {"a"}, roms |-> {"None"},
     flags |-> BOOLEAN, tags |-> ItemTags, forces |-> {TRUE}]

InitInitial == InitOver(BOOLEAN)

NextInitial ==
    \/ Builders(InitialInputs)
    \/ \E r \in SongRefs : ResolveInitialSubsong(r)

SpecInitial == InitInitial /\ [][NextInitial]_vars

NextPlayable == Builders(PlayableInputs) \/ Activation(PlayableInputs)

SpecPlayable == Init /\ [][NextPlayable]_vars

\* A playlist whose songs differ in author.
AuthorInputs ==
    [maxSongs |-> NavSongs, maxNodes |-> NavNodes, removes |-> NodeTypes,
     paths |-> {"p"}, defaults |-> {1}, authors |-> {"a", "b"}, roms |-> {"None"},
     flags |-> {TRUE}, tags |-> {"Normal"}, forces |-> {TRUE}]

NextAuthors == Builders(AuthorInputs)

SpecAuthors == Init /\ [][NextAuthors]_vars

\* A playlist to ask every traversal of: songs share file paths, differ in the
\* default subsong and are tagged at will.
TraverseInputs ==
    [maxSongs |-> MaxSongs, maxNodes |-> MaxNodes, removes |-> {"Song"},
     paths |-> {"p", "q"}, defaults |-> {1, 2}, authors |-> {"a"}, roms |-> {"None"},
     flags |-> {TRUE}, tags |-> {"Normal", "ShortDuration"}, forces |-> {TRUE}]

NextTraverse ==
    \/ Builders(TraverseInputs)
    \/ Queries
    \/ \E r \in SongRefs : ResolveInitialSubsong(r)

SpecTraverse == InitInitial /\ [][NextTraverse]_vars

\* Every call in one session: the playlist is built and changed, nodes are
\* made active, and the traversals and lookups are asked.
SessionInputs ==
    [maxSongs |-> PlayableSongs, maxNodes |-> PlayableNodes, removes |-> NodeTypes,
     paths |-> {"p"}, defaults |-> {1}, authors |-> {"a"}, roms |-> {"None"},
     flags |-> BOOLEAN, expands |-> {FALSE}, tags |-> {"Normal", "Blacklisted"},
     forces |-> {TRUE}]

NextSession ==
    \/ Builders(SessionInputs)
    \/ Activation(SessionInputs)
    \/ Queries
    \/ \E r \in SongRefs : ResolveInitialSubsong(r)

SpecSession == Init /\ [][NextSession]_vars
---------------------------------------------------------------------------
\* What the playlist promises.

\* C1: every call of GetNextSong returns, and makes at most as many calls of
\* itself as there are songs after `from` in the root list (file paths may
\* repeat).
GetNextSongTerminates ==
    ret.op = "GetNextSong" =>
        /\ ret.val # CRASH
        /\ ret.calls <= Len(entries) - ret.arg[1]

\* C2: once Remove(e) has returned, e being the active entry or the song that
\* owns the active subsong, and once Clear has returned, GetActiveSong is null.
ActiveClearedOnRemoveAndClear ==
    /\ ( /\ ret.op = "Remove"
         /\ ret.was # NULL
         /\ ret.arg = ret.was \/ ret.arg = GetParent(ret.was) ) => GetActiveSong = NULL
    /\ ret.op = "Clear" => GetActiveSong = NULL

\* C2's case: the song that owned the active subsong has been removed.
OwnerOfActiveRemoved ==
    /\ ret.op = "Remove"
    /\ ret.was # NULL
    /\ ret.was[2] # 0
    /\ ret.arg = GetParent(ret.was)
    /\ ret.ok
    /\ GetActiveSong = NULL

\* C3: TrySetActiveSong on an entry that is not playable returns false and
\* changes nothing: not the active item, not an entry's tag or attributes,
\* not the playlist, whatever autoexpand is.
RefusedSetActiveChangesNothing ==
    [][ ( /\ ret'.op = "TrySetActiveSong"
          /\ ~IsPlayable(NodeAt(ret'.arg)) )
        => ( /\ ~ret'.ok
             /\ ret'.val = NULL
             /\ ret'.note = "None"
             /\ UNCHANGED <<entries, activeItem, authorHidden, preferDefault, view>> ) ]_vars

\* C3's case: with another entry active, a Blacklisted entry has been refused
\* under autoexpand.
BlacklistedRefused ==
    /\ ret.op = "TrySetActiveSong"
    /\ ret.flag
    /\ ~ret.ok
    /\ NodeAt(ret.arg).playable
    /\ NodeAt(ret.arg).tag = "Blacklisted"
    /\ ret.was # NULL
    /\ activeItem = ret.was

\* What a song is from its creation to its removal.
Identity(n) ==
    <<n.filepath, n.defaultSubsong, n.author, n.romRequirement, n.playable>>

Identities(es) == [i \in 1..Len(es) |-> Identity(es[i])]

\* The sequence s without its i-th element.
Without(s, i) == [k \in 1..(Len(s) - 1) |-> IF k < i THEN s[k] ELSE s[k + 1]]

\* C4: once Remove(e) has returned, e is out of the playlist: a song has left
\* the root with its subsongs, a subsong has left its parent's children, which
\* are one fewer.
RemoveErases ==
    [][ ret'.op = "Remove" =>
          IF ret'.arg[2] = 0
          THEN entries' = Without(entries, ret'.arg[1])
          ELSE /\ Len(entries') = Len(entries)
               /\ entries'[ret'.arg[1]].children =
                      Without(entries[ret'.arg[1]].children, ret'.arg[2]) ]_vars

\* C5: the songs of the root are in the order they were added in: AddMainSong
\* appends, Remove takes out the one song it names, Clear empties the list,
\* and no other call moves a song.
OrderKept ==
    [][ CASE ret'.op = "AddMainSong" ->
                 /\ Len(entries') = Len(entries) + 1
                 /\ SubSeq(Identities(entries'), 1, Len(entries)) = Identities(entries)
                 /\ ret'.val = <<Len(entries'), 0>>
          [] ret'.op = "Remove" /\ ret'.arg[2] = 0 ->
                 Identities(entries') = Without(Identities(entries), ret'.arg[1])
          [] ret'.op = "Clear" -> entries' = <<>>
          [] OTHER -> Identities(entries') = Identities(entries) ]_vars

\* C5's case: of two songs with different file paths the first has been
\* removed, and the second is what is left.
FirstOfTwoRemoved ==
    /\ ret.op = "Remove"
    /\ ret.arg = <<1, 0>>
    /\ Len(entries) = 1
    /\ entries[1].filepath = "q"

\* C6: the subsong indices of every song, read in the order of its children,
\* are 1, 2, ..., N, N being the number of subsongs AddSubsongs was given for
\* that song.
SubsongIndicesContiguous ==
    \A i \in 1..Len(entries) :
        \A j \in 1..Len(entries[i].children) :
            entries[i].children[j].defaultSubsong = j

Least(S) == CHOOSE x \in S : \A y \in S : x <= y

Greatest(S) == CHOOSE x \in S : \A y \in S : x >= y

\* The auto-playable songs after and before the i-th.
AutoPlayableAfter(i) == {k \in (i + 1)..Len(entries) : IsAutoPlayable(entries[k])}

AutoPlayableBefore(i) == {k \in 1..(i - 1) : IsAutoPlayable(entries[k])}

\* C7: from a song of the playlist, GetNextSong gives the effective initial
\* subsong of the nearest auto-playable song after it, GetPrevSong that of the
\* nearest auto-playable song before it; songs that are not auto-playable are
\* passed over.
NearestAutoPlayableSong ==
    /\ ( /\ ret.op = "GetNextSong"
         /\ IsSongRef(ret.arg)
         /\ AutoPlayableAfter(ret.arg[1]) # {} )
       => ret.val = GetEffectiveInitialSubsong(Least(AutoPlayableAfter(ret.arg[1])))
    /\ ( /\ ret.op = "GetPrevSong"
         /\ IsSongRef(ret.arg)
         /\ AutoPlayableBefore(ret.arg[1]) # {} )
       => ret.val = GetEffectiveInitialSubsong(Greatest(AutoPlayableBefore(ret.arg[1])))

\* No two songs of the playlist have the same file path.
DistinctPaths ==
    \A i, j \in 1..Len(entries) : entries[i].filepath = entries[j].filepath => i = j

\* C8: GetNextSong and GetPrevSong give null only when nothing is left to play
\* on that side: with an auto-playable song there whose effective initial
\* subsong is not null, the result is an entry.  Stated for playlists of
\* distinct file paths, where `from` is found at its own place.
NullOnlyWhenNothingLeft ==
    /\ ( /\ ret.op = "GetNextSong"
         /\ DistinctPaths
         /\ IsSongRef(ret.arg)
         /\ \E k \in AutoPlayableAfter(ret.arg[1]) : GetEffectiveInitialSubsong(k) # NULL )
       => (ret.ok /\ ret.val # NULL)
    /\ ( /\ ret.op = "GetPrevSong"
         /\ DistinctPaths
         /\ IsSongRef(ret.arg)
         /\ \E k \in AutoPlayableBefore(ret.arg[1]) : GetEffectiveInitialSubsong(k) # NULL )
       => (ret.ok /\ ret.val # NULL)

\* The auto-playable children of the node n, and those of them whose subsong
\* index is in the set I.
AutoPlayableChildren(n) == {j \in 1..Len(n.children) : IsAutoPlayable(n.children[j])}

IndexedIn(n, I) == {j \in AutoPlayableChildren(n) : n.children[j].defaultSubsong \in I}

\* Of the children J of n, those with the lowest and the highest subsong index.
LowestIndexed(n, J) ==
    {j \in J : \A k \in J : n.children[j].defaultSubsong <= n.children[k].defaultSubsong}

HighestIndexed(n, J) ==
    {j \in J : \A k \in J : n.children[j].defaultSubsong >= n.children[k].defaultSubsong}

\* C9: the effective initial subsong of a song without subsongs is the song
\* when it is auto-playable and null otherwise; of a song with subsongs it is
\* the subsong at the preferred index (the default subsong under the option,
\* else 1) when that is auto-playable, otherwise the auto-playable subsong of
\* the lowest index, otherwise null.
InitialSubsongResolved ==
    ret.op = "GetEffectiveInitialSubsong" =>
        LET s == ret.arg[1]
            n == entries[s]
            preferred == IF preferDefault THEN n.defaultSubsong ELSE 1
            atPreferred == IndexedIn(n, {preferred})
            playable == AutoPlayableChildren(n)
        IN  IF Len(n.children) = 0
            THEN ret.val = IF IsAutoPlayable(n) THEN <<s, 0>> ELSE NULL
            ELSE IF atPreferred # {} THEN ret.val \in {<<s, j>> : j \in atPreferred}
            ELSE IF playable # {}
            THEN ret.val \in {<<s, j>> : j \in LowestIndexed(n, playable)}
            ELSE ret.val = NULL

\* C10: from a subsong, GetNextSubsong gives the auto-playable subsong of the
\* same song with the least index above its own, GetPrevSubsong the one with
\* the greatest index below its own, and null when there is none.
NearestAutoPlayableSubsong ==
    /\ ret.op = "GetNextSubsong" =>
           LET n == entries[ret.arg[1]]
               above == IndexedIn(n, (NodeAt(ret.arg).defaultSubsong + 1)..Len(n.children))
           IN  IF above = {} THEN ret.val = NULL
               ELSE ret.val \in {<<ret.arg[1], j>> : j \in LowestIndexed(n, above)}
    /\ ret.op = "GetPrevSubsong" =>
           LET n == entries[ret.arg[1]]
               below == IndexedIn(n, 1..(NodeAt(ret.arg).defaultSubsong - 1))
           IN  IF below = {} THEN ret.val = NULL
               ELSE ret.val \in {<<ret.arg[1], j>> : j \in HighestIndexed(n, below)}

\* The place of the active node once the call recorded in r has returned, had
\* the call left _activeItem alone: the erasure of a song moves the later ones.
Untouched(r) ==
    IF r.op = "Remove" /\ r.ok THEN Rebase(activeItem, r.arg[1]) ELSE activeItem

\* C11: there is one active reference, and it comes to name an entry only by a
\* call of TrySetActiveSong that returns true for that entry, playable when
\* the call is made; every other call leaves it alone or sets it to null.
ActiveOnlyByTrySetActiveSong ==
    [][ \/ activeItem' = Untouched(ret')
        \/ activeItem' = NULL
        \/ /\ ret'.op = "TrySetActiveSong"
           /\ ret'.ok
           /\ activeItem' = ret'.arg
           /\ IsLive(ret'.arg)
           /\ IsPlayable(NodeAt(ret'.arg)) ]_vars

ActiveMoved ==
    /\ ret.op = "TrySetActiveSong"
    /\ ret.ok
    /\ ret.was # NULL
    /\ ret.was # ret.arg
    /\ activeItem = ret.arg

\* C12: SetItemTag without force on an entry that is not playable does
\* nothing, whatever the tag: the entry's tag, icon and attributes stay as they
\* are and no notification is sent.
UnforcedTagOfUnplayableIsNoOp ==
    [][ ( /\ ret'.op = "SetItemTag"
          /\ ~ret'.flag
          /\ ~IsPlayable(NodeAt(ret'.arg)) )
        => /\ entries' = entries
           /\ ret'.note = "None"
           /\ UNCHANGED <<activeItem, authorHidden, view>> ]_vars

BlacklistedNotRetagged ==
    /\ ret.op = "SetItemTag"
    /\ ~ret.flag
    /\ ret.note = "None"
    /\ NodeAt(ret.arg).playable
    /\ NodeAt(ret.arg).tag = "Blacklisted"

\* C13: in the initial state and after every call, the author column is
\* hidden exactly when there are fewer than two songs or all songs have the
\* same author.
AuthorColumnNeverStale ==
    authorHidden =
        ( \/ Len(entries) < 2
          \/ \A i, j \in 1..Len(entries) : entries[i].author = entries[j].author )

AuthorColumnHiddenAgain ==
    /\ ret.op = "Remove"
    /\ ret.ok
    /\ Len(entries) = 2
    /\ entries[1].author = "b"
    /\ entries[2].author = "b"
    /\ authorHidden

\* C14: after every call the attributes show what is active: an entry is bold
\* exactly when it is the active entry or the song of the active subsong.
BoldIffActive ==
    \A r \in LiveRefs :
        NodeAt(r).attr.bold <=>
            /\ GetActiveSong # NULL
            /\ r \in {GetActiveSong, GetParent(GetActiveSong)}

\* C15: whatever the calls before, a result of GetNextSong, GetPrevSong,
\* GetNextSubsong, GetPrevSubsong or GetEffectiveInitialSubsong that is not
\* null is an entry of the playlist and is auto-playable.
ResultsArePlayableEntries ==
    ( /\ ret.op \in {"GetNextSong", "GetPrevSong", "GetNextSubsong", "GetPrevSubsong",
                     "GetEffectiveInitialSubsong"}
      /\ ret.ok
      /\ ret.val # NULL )
    => /\ ret.val \in LiveRefs
       /\ IsAutoPlayable(NodeAt(ret.val))

SkippedToPlayableSubsong ==
    /\ ret.op = "GetEffectiveInitialSubsong"
    /\ ret.val \in SubsongRefs
    /\ ret.val[2] > 1
    /\ ~IsAutoPlayable(NodeAt(<<ret.val[1], 1>>))
    /\ IsAutoPlayable(NodeAt(ret.val))

\* C16: AddSubsongs with no durations changes nothing and sends nothing; with
\* n > 0 durations it appends exactly n subsongs to the parent's children, each
\* with the parent's file path, ROM requirement and playable flag (the flag
\* the parent was created with, whatever its tag), and sends one ItemsAdded.
SubsongsInheritFromParent ==
    [][ ret'.op = "AddSubsongs" =>
          LET parent == NodeAt(ret'.arg)
              kids == entries'[ret'.arg[1]].children
              n == ret'.calls
          IN  IF n = 0
              THEN /\ entries' = entries
                   /\ view' = view
                   /\ ret'.note = "None"
              ELSE /\ Len(kids) = Len(parent.children) + n
                   /\ SubSeq(kids, 1, Len(parent.children)) = parent.children
                   /\ \A j \in (Len(parent.children) + 1)..Len(kids) :
                          /\ kids[j].type = "Subsong"
                          /\ kids[j].filepath = parent.filepath
                          /\ kids[j].romRequirement = parent.romRequirement
                          /\ kids[j].playable = parent.playable
                   /\ \A i \in 1..Len(entries) :
                          i # ret'.arg[1] => entries'[i] = entries[i]
                   /\ Len(entries') = Len(entries)
                   /\ ret'.note = "ItemsAdded" ]_vars

\* C17: the active reference is null or names an entry of the playlist, a
\* song of the root or a subsong of one; it never names a destroyed node, also
\* when the song of the active subsong is removed or songs share a file path.
\* Remove and Clear unset the reference before they erase and notify, so the
\* state they notify in is the state they return in.
ActiveNeverDangles ==
    \/ GetActiveSong = NULL
    \/ GetActiveSong \in LiveRefs

ActiveSubsongWentWithItsSong ==
    /\ ret.op = "Remove"
    /\ ret.ok
    /\ ret.was[2] # 0
    /\ ret.arg = GetParent(ret.was)
    /\ Len(entries) = 1
    /\ activeItem = NULL

\* C18: Remove of an entry that is neither the active entry nor the song of
\* the active subsong leaves the active reference as it is: another song, also
\* one with the active entry's file path, or a sibling of the active subsong.
RemoveOfOthersKeepsActive ==
    [][ ( /\ ret'.op = "Remove"
          /\ GetActiveSong # NULL
          /\ ret'.arg # GetActiveSong
          /\ ret'.arg # GetParent(GetActiveSong) )
        => activeItem' = Untouched(ret') ]_vars

\* C19: the entries the control has been told of (added, and not since
\* deleted or cleared) are the entries of the playlist; a deletion is notified
\* only of an entry that has been erased.
NotificationsInStep ==
    /\ view = LiveRefs
    /\ (ret.op = "Remove" /\ ret.note = "ItemDeleted") => ret.ok

====
